---- MODULE Spec2Model ----
(***************************************************************************)
(* The nightlightdns CoreDNS plugin: Nightlightdns.ServeDNS answers A and  *)
(* AAAA queries from the table file dns.json and hands every other query   *)
(* to the next plugin of the chain.                                        *)
(*                                                                         *)
(* Strings are sequences of one-character strings, so that splitting,      *)
(* lower-casing and address parsing are computed, not assumed.             *)
(***************************************************************************)
EXTENDS Integers, Sequences, FiniteSets, TLC

\* ------------------------------------------------------------------ bounds
\* longest query name, in characters (question names end with a dot)
MaxNameLen == 4
\* most records in the table file
MaxRecords == 2
\* queries handled concurrently
NumQueries == 2
\* rewrites of the table file while the server runs
MaxUpdates == 1

\* ------------------------------------------------- constants of miekg/dns
TypeA == 1
TypeAAAA == 28
TypeMX == 15
TypeNone == 0
ClassINET == 1
AnswerTtl == 30
RcodeSuccess == 0
RcodeServerFailure == 2
RcodeNameError == 3
IPv4len == 4
IPv6len == 16

\* ----------------------------------------------------------------- strings
Letters == {"h", "H"}
Alphabet == Letters \cup {"."}

Max(S) == CHOOSE x \in S : \A y \in S : y <= x

SeqsUpTo(S, n) == UNION {[1..k -> S] : k \in 0..n}

\* strings.ToLower on one character and on a string
LowerChar(c) == IF c = "H" THEN "h" ELSE c
ToLower(s) == [i \in 1..Len(s) |-> LowerChar(s[i])]

\* strings.Split(s, sep) for a one-character separator: the pieces between
\* separators, empty pieces kept; always at least one piece.
RECURSIVE SplitFrom(_, _, _, _)
SplitFrom(s, sep, i, cur) ==
    IF i > Len(s) THEN <<cur>>
    ELSE IF s[i] = sep THEN <<cur>> \o SplitFrom(s, sep, i + 1, <<>>)
    ELSE SplitFrom(s, sep, i + 1, Append(cur, s[i]))
Split(s, sep) == SplitFrom(s, sep, 1, <<>>)

\* ------------------------------------------------------------- net.ParseIP
DecDigits == <<"0", "1", "2", "3", "4", "5", "6", "7", "8", "9">>
HexLower == DecDigits \o <<"a", "b", "c", "d", "e", "f">>
HexUpper == DecDigits \o <<"A", "B", "C", "D", "E", "F">>
IndexOf(seq, c) == IF \E i \in 1..Len(seq) : seq[i] = c
                   THEN CHOOSE i \in 1..Len(seq) : seq[i] = c
                   ELSE 0
IsDec(c) == IndexOf(DecDigits, c) > 0
DecVal(c) == IndexOf(DecDigits, c) - 1
IsHex(c) == IndexOf(HexLower, c) > 0 \/ IndexOf(HexUpper, c) > 0
HexVal(c) == IF IndexOf(HexLower, c) > 0 THEN IndexOf(HexLower, c) - 1
             ELSE IndexOf(HexUpper, c) - 1
Big == 16777215

Drop(s, k) == SubSeq(s, k + 1, Len(s))
Zeros(k) == [i \in 1..k |-> 0]

\* dtoi: the leading decimal number of s; c characters consumed
RECURSIVE dtoiFrom(_, _, _)
dtoiFrom(s, i, n) ==
    IF i <= Len(s) /\ IsDec(s[i])
    THEN IF n * 10 + DecVal(s[i]) >= Big
         THEN [n |-> Big, c |-> i - 1, ok |-> FALSE]
         ELSE dtoiFrom(s, i + 1, n * 10 + DecVal(s[i]))
    ELSE IF i = 1 THEN [n |-> 0, c |-> 0, ok |-> FALSE]
    ELSE [n |-> n, c |-> i - 1, ok |-> TRUE]
dtoi(s) == dtoiFrom(s, 1, 0)

\* xtoi: the leading hexadecimal number of s
RECURSIVE xtoiFrom(_, _, _)
xtoiFrom(s, i, n) ==
    IF i <= Len(s) /\ IsHex(s[i])
    THEN IF n * 16 + HexVal(s[i]) >= Big
         THEN [n |-> 0, c |-> i - 1, ok |-> FALSE]
         ELSE xtoiFrom(s, i + 1, n * 16 + HexVal(s[i]))
    ELSE IF i = 1 THEN [n |-> 0, c |-> 0, ok |-> FALSE]
    ELSE [n |-> n, c |-> i - 1, ok |-> TRUE]
xtoi(s) == xtoiFrom(s, 1, 0)

\* a nil net.IP is the empty byte sequence
NilIP == <<>>
v4InV6Prefix == Zeros(10) \o <<255, 255>>

\* parseIPv4: four dot-separated decimal octets, no leading zeroes; the
\* octets p parsed so far, the rest s of the text
RECURSIVE parseIPv4From(_, _)
parseIPv4From(s, p) ==
    IF Len(p) = IPv4len
    THEN IF Len(s) # 0 THEN NilIP ELSE v4InV6Prefix \o p
    ELSE IF Len(s) = 0 THEN NilIP
    ELSE IF Len(p) > 0 /\ s[1] # "." THEN NilIP
    ELSE LET t == IF Len(p) > 0 THEN Tail(s) ELSE s
             d == dtoi(t)
         IN IF ~d.ok \/ d.n > 255 THEN NilIP
            ELSE IF d.c > 1 /\ t[1] = "0" THEN NilIP
            ELSE parseIPv4From(Drop(t, d.c), Append(p, d.n))
parseIPv4(s) == parseIPv4From(s, <<>>)

\* the end of parseIPv6: the whole text used, the ellipsis expanded
v6Finish(s, ip, ellipsis) ==
    IF Len(s) # 0 THEN NilIP
    ELSE IF Len(ip) < IPv6len
    THEN IF ellipsis < 0 THEN NilIP
         ELSE SubSeq(ip, 1, ellipsis) \o Zeros(IPv6len - Len(ip))
              \o SubSeq(ip, ellipsis + 1, Len(ip))
    ELSE IF ellipsis >= 0 THEN NilIP
    ELSE ip

\* the loop of parseIPv6: hex groups followed by colons; ip holds the bytes
\* stored so far (the loop index is Len(ip)), ellipsis the position of "::"
RECURSIVE v6Loop(_, _, _)
v6Loop(s, ip, ellipsis) ==
    IF Len(ip) >= IPv6len THEN v6Finish(s, ip, ellipsis)
    ELSE LET x == xtoi(s) IN
    IF ~x.ok \/ x.n > 65535 THEN NilIP
    ELSE IF x.c < Len(s) /\ s[x.c + 1] = "."
    THEN IF ellipsis < 0 /\ Len(ip) # IPv6len - IPv4len THEN NilIP
         ELSE IF Len(ip) + IPv4len > IPv6len THEN NilIP
         ELSE LET ip4 == parseIPv4(s) IN
              IF ip4 = NilIP THEN NilIP
              ELSE v6Finish(<<>>, ip \o SubSeq(ip4, 13, 16), ellipsis)
    ELSE LET ip2 == ip \o <<x.n \div 256, x.n % 256>>
             s2 == Drop(s, x.c)
         IN IF Len(s2) = 0 THEN v6Finish(s2, ip2, ellipsis)
            ELSE IF s2[1] # ":" \/ Len(s2) = 1 THEN NilIP
            ELSE LET s3 == Tail(s2) IN
                 IF s3[1] = ":"
                 THEN IF ellipsis >= 0 THEN NilIP
                      ELSE IF Len(s3) = 1 THEN v6Finish(<<>>, ip2, Len(ip2))
                      ELSE v6Loop(Tail(s3), ip2, Len(ip2))
                 ELSE v6Loop(s3, ip2, ellipsis)

parseIPv6(s) ==
    IF Len(s) >= 2 /\ s[1] = ":" /\ s[2] = ":"
    THEN IF Len(s) = 2 THEN Zeros(IPv6len) ELSE v6Loop(Drop(s, 2), <<>>, 0)
    ELSE v6Loop(s, <<>>, -1)

\* net.ParseIP: the first '.' or ':' of the text decides the parser
RECURSIVE ParseIPFrom(_, _)
ParseIPFrom(s, i) ==
    IF i > Len(s) THEN NilIP
    ELSE IF s[i] = "." THEN parseIPv4(s)
    ELSE IF s[i] = ":" THEN parseIPv6(s)
    ELSE ParseIPFrom(s, i + 1)

\* the address texts of the tables checked: a complete and an abbreviated
\* address, and a text that is no address
Addr1 == <<"1", "0", ".", "0", ".", "0", ".", "5">>
Addr2 == <<":", ":", "1">>
AddrBad == <<"1", "0", ".", "0", ".", "0">>
AddrTexts == {Addr1, Addr2, AddrBad}

\* ParseIPFrom on the texts above and on "", computed once
ParsedTexts == [s \in AddrTexts \cup {<<>>} |-> ParseIPFrom(s, 1)]
ParseIP(s) == IF s \in DOMAIN ParsedTexts THEN ParsedTexts[s] ELSE ParseIPFrom(s, 1)

\* --------------------------------------------------- the table file dns.json
\* A JSON value of a record's field: a string, or a value of another type.
JString(s) == [t |-> "string", s |-> s]
JNumber == [t |-> "number", s |-> <<>>]

RecNames == {<<c>> : c \in Letters}
JNames == {JString(s) : s \in RecNames} \cup {JNumber}
JAddrs == {JString(s) : s \in AddrTexts}
JEntries == [name : JNames, ipaddress : JAddrs]

\* What the path dns.json holds: no file, bytes that are no JSON text, a JSON
\* text that is no object with a "records" array, or {"records": [...]}.
NoFile == [kind |-> "missing", records |-> <<>>]
Garbage == [kind |-> "syntax", records |-> <<>>]
NotObject == [kind |-> "notobject", records |-> <<>>]
Table(recs) == [kind |-> "object", records |-> recs]
Tables == {NoFile, Garbage, NotObject} \cup {Table(rs) : rs \in SeqsUpTo(JEntries, MaxRecords)}

\* the local variable file before line 67 has run
NotRead == [kind |-> "unread", records |-> <<>>]

\* ioutil.ReadFile("dns.json"): the content, or nil bytes and an error
ReadFile(f) == IF f.kind = "missing"
               THEN [bytes |-> [kind |-> "empty", records |-> <<>>], err |-> "ENOENT"]
               ELSE [bytes |-> f, err |-> "nil"]

\* how encoding/json stores one JSON value into a Go string field: a value of
\* another type is skipped (the field keeps "") and the error is saved
StoreString(v) == IF v.t = "string" THEN v.s ELSE <<>>
DecodeRecord(e) == [Name |-> StoreString(e.name), Ipaddress |-> StoreString(e.ipaddress)]
Mistyped(e) == e.name.t # "string" \/ e.ipaddress.t # "string"

\* json.Unmarshal(file, &data): the text is validated first, and nothing is
\* stored when it is no JSON text; a value of the wrong type is skipped, the
\* rest is decoded, and the first such error is returned.
Unmarshal(bytes) ==
    CASE bytes.kind = "empty" -> [Records |-> <<>>, err |-> "SyntaxError"]
      [] bytes.kind = "syntax" -> [Records |-> <<>>, err |-> "SyntaxError"]
      [] bytes.kind = "notobject" -> [Records |-> <<>>, err |-> "UnmarshalTypeError"]
      [] OTHER ->
           [Records |-> [i \in 1..Len(bytes.records) |-> DecodeRecord(bytes.records[i])],
            err |-> IF \E i \in 1..Len(bytes.records) : Mistyped(bytes.records[i])
                    THEN "UnmarshalTypeError" ELSE "nil"]

\* ------------------------------------------------------------ the requests
\* question names as they come off the wire: the root ".", or non-empty
\* labels each followed by a dot
WellFormedName(s) ==
    /\ Len(s) >= 1
    /\ s[Len(s)] = "."
    /\ Len(s) > 1 => s[1] # "."
    /\ \A i \in 1..(Len(s) - 1) : ~(s[i] = "." /\ s[i + 1] = ".")
QNames == {s \in SeqsUpTo(Alphabet, MaxNameLen) : WellFormedName(s)}
QTypes == {TypeA, TypeAAAA, TypeMX}
MsgIds == {1, 2}
Servers == {"dns://.:53", "dns://.:1053"}

Question(n, t) == [Name |-> n, Qtype |-> t]
Msg(id, qs) == [Id |-> id, Question |-> qs]
Requests == {Msg(id, <<Question(n, t)>>) : id \in MsgIds, n \in QNames, t \in QTypes}
                \cup {Msg(id, <<>>) : id \in MsgIds}
NoMsg == Msg(0, <<>>)
NoCtx == [server |-> "none"]

\* request.Request.Name: the first question's name, lower-cased; "." when
\* the message has no question
Name(m) == IF Len(m.Question) = 0 THEN <<".">> ELSE ToLower(m.Question[1].Name)
\* request.Request.QType: the first question's type; 0 without a question
QType(m) == IF Len(m.Question) = 0 THEN TypeNone ELSE m.Question[1].Qtype
\* a bug: the server label is dropped, every increment lands on one label
WithServerUnlabelled(c) == "dns://.:53"

\* metrics.WithServer(ctx): the address of the server handling the request
WithServer(c) == c.server

\* line 59: the query types answered from the table
IsAddressQuery(m) == ~(QType(m) # TypeA /\ QType(m) # TypeAAAA)

\* a bug: the scan stops at the first record that matches
RECURSIVE MatchFirstFrom(_, _, _)
MatchFirstFrom(qname, records, i) ==
    IF i > Len(records) THEN <<>>
    ELSE IF records[i].Name = Split(qname, ".")[1] THEN records[i].Ipaddress
    ELSE MatchFirstFrom(qname, records, i + 1)
MatchFirst(qname, records) == MatchFirstFrom(qname, records, 1)

\* lines 73-81: the scan of the records; every record named like the first
\* dot-separated piece of qname overwrites outip
RECURSIVE MatchFrom(_, _, _, _)
MatchFrom(qname, records, i, outip) ==
    IF i > Len(records) THEN outip
    ELSE LET baseName == Split(qname, ".")
         IN MatchFrom(qname, records, i + 1,
                      IF records[i].Name = baseName[1] THEN records[i].Ipaddress ELSE outip)
MatchRecords(qname, records) == MatchFrom(qname, records, 1, <<>>)

\* lines 83-91: the one answer record
BuildAnswer(qname, outip) ==
    [Name |-> qname, Rrtype |-> TypeA, Class |-> ClassINET, Ttl |-> AnswerTtl,
     A |-> ParseIP(outip)]

\* a bug: m.SetReply(r) is left out, the message is no reply to r
BuildReplyNoSetReply(m, ans) ==
    [Id |-> 0, Response |-> FALSE, Rcode |-> RcodeSuccess, Question |-> <<>>,
     Authoritative |-> TRUE, Answer |-> ans]

\* lines 98-101: dns.Msg.SetReply(r), then Authoritative and Answer
BuildReply(m, ans) ==
    [Id |-> m.Id, Response |-> TRUE, Rcode |-> RcodeSuccess,
     Question |-> IF Len(m.Question) > 0 THEN <<m.Question[1]>> ELSE <<>>,
     Authoritative |-> TRUE, Answer |-> ans]

\* what a next plugin may return
NextResults == {<<RcodeSuccess, "nil">>, <<RcodeNameError, "nil">>,
                <<RcodeServerFailure, "next failed">>}
NoNextPlugin == <<RcodeServerFailure, "plugin/nightlightdns: no next plugin found">>

\* ---------------------------------------------------------------- the state
VARIABLES
    Next,          \* Nightlightdns.Next: "handler", or "nil" for the last plugin
    dnsjson,       \* the content of the file dns.json
    fileVer,       \* how many times dns.json has been rewritten
    tableHist,     \* every content dns.json has had, oldest first
    requestCount,  \* the counter, by server label
    pc,            \* where each call of ServeDNS stands
    ctx, r,        \* the arguments of each call (w is the query's own writer)
    startVer,      \* fileVer when the call started
    file, readVer, \* the bytes line 67 read, and the fileVer they belong to
    data,          \* data.Records after line 71
    answers,       \* answers after line 91
    written,       \* the messages the call has passed to w.WriteMsg
    werr,          \* what w.WriteMsg returned (the code discards it)
    nextCalls,     \* the calls of Next.ServeDNS made, with their results
    ret            \* the pair ServeDNS returned

vars == <<Next, dnsjson, fileVer, tableHist, requestCount, pc, ctx, r, startVer, file, readVer,
          data, answers, written, werr, nextCalls, ret>>

Queries == 1..NumQueries

\* a bug: the reply is written before the counter is incremented
PcAfterWriteFirst(p) ==
    CASE p = "classify" -> "write"
      [] p = "write" -> "count"
      [] p = "count" -> "done"

\* the order of the statements of ServeDNS on the path that answers locally
PcAfter(p) ==
    CASE p = "classify" -> "count"
      [] p = "count" -> "write"
      [] p = "write" -> "done"

\* nothing counted, dns.json never rewritten, no local of any call set
Fresh ==
    /\ requestCount = [s \in Servers |-> 0]
    /\ fileVer = 0
    /\ startVer = [q \in Queries |-> 0]
    /\ file = [q \in Queries |-> NotRead]
    /\ readVer = [q \in Queries |-> 0]
    /\ data = [q \in Queries |-> <<>>]
    /\ answers = [q \in Queries |-> <<>>]
    /\ written = [q \in Queries |-> <<>>]
    /\ werr = [q \in Queries |-> "none"]
    /\ nextCalls = [q \in Queries |-> <<>>]
    /\ ret = [q \in Queries |-> <<>>]

\* the tables and requests of the concurrent runs: the name "h" with one of
\* two addresses, asked for by an A query, and a query of another type
SampleTables == {Table(<<[name |-> JString(<<"h">>), ipaddress |-> JString(a)]>>) : a \in {Addr1, Addr2}}
SampleRequests == {Msg(1, <<Question(<<"h", ".">>, t)>>) : t \in {TypeA, TypeMX}}

\* setup (setup.go:24-26) builds Nightlightdns{Next: next}; the last plugin of
\* a chain gets a nil next. No query has arrived yet.
Init ==
    /\ Fresh
    /\ pc = [q \in Queries |-> "idle"]
    /\ ctx = [q \in Queries |-> NoCtx]
    /\ r = [q \in Queries |-> NoMsg]
    /\ Next \in {"handler", "nil"}
    /\ dnsjson \in SampleTables
    /\ tableHist = <<dnsjson>>

\* the server calls ServeDNS(ctx, w, r) for query q (lines 41-56)
Receive(q) ==
    /\ pc[q] = "idle"
    /\ \E s \in Servers, m \in SampleRequests :
         /\ ctx' = [ctx EXCEPT ![q] = [server |-> s]]
         /\ r' = [r EXCEPT ![q] = m]
    /\ pc' = [pc EXCEPT ![q] = "classify"]
    /\ startVer' = [startVer EXCEPT ![q] = fileVer]
    /\ UNCHANGED <<Next, dnsjson, fileVer, tableHist, requestCount, file, readVer, data, answers,
                   written, werr, nextCalls, ret>>

\* lines 130-140: dnserror, the reply with a failure code that line 64 would
\* write if it could be reached
ErrorReply(m, rcode) ==
    [Id |-> m.Id, Response |-> TRUE, Rcode |-> rcode,
     Question |-> IF Len(m.Question) > 0 THEN <<m.Question[1]>> ELSE <<>>,
     Authoritative |-> TRUE, Answer |-> <<>>]

\* a bug: line 61 does not return, and line 64 writes a SERVFAIL reply after
\* the next plugin has been called
DelegateThenFail(q) ==
    /\ pc[q] = "classify"
    /\ ~IsAddressQuery(r[q])
    /\ \E res \in NextResults :
         nextCalls' = [nextCalls EXCEPT
             ![q] = Append(@, [ctx |-> ctx[q], w |-> q, r |-> r[q], res |-> res])]
    /\ written' = [written EXCEPT ![q] = Append(@, ErrorReply(r[q], RcodeServerFailure))]
    /\ ret' = [ret EXCEPT ![q] = <<RcodeSuccess, "nil">>]
    /\ pc' = [pc EXCEPT ![q] = "done"]
    /\ UNCHANGED <<Next, dnsjson, fileVer, tableHist, requestCount, ctx, r, startVer, file,
                   readVer, data, answers, werr>>

\* a bug: the result of the next plugin is dropped and success returned
DelegateDropsResult(q) ==
    /\ pc[q] = "classify"
    /\ ~IsAddressQuery(r[q])
    /\ IF Next # "nil"
       THEN \E res \in NextResults :
              nextCalls' = [nextCalls EXCEPT
                  ![q] = Append(@, [ctx |-> ctx[q], w |-> q, r |-> r[q], res |-> res])]
       ELSE UNCHANGED nextCalls
    /\ ret' = [ret EXCEPT ![q] = <<RcodeSuccess, "nil">>]
    /\ pc' = [pc EXCEPT ![q] = "done"]
    /\ UNCHANGED <<Next, dnsjson, fileVer, tableHist, requestCount, ctx, r, startVer, file,
                   readVer, data, answers, written, werr>>

\* lines 59-61: a query of another type goes to plugin.NextOrFailure, which
\* calls Next.ServeDNS(ctx, w, r) and returns what it returns, or returns
\* SERVFAIL and an error when Next is nil
Delegate(q) ==
    /\ pc[q] = "classify"
    /\ ~IsAddressQuery(r[q])
    /\ IF Next # "nil"
       THEN \E res \in NextResults :
              /\ nextCalls' = [nextCalls EXCEPT
                     ![q] = Append(@, [ctx |-> ctx[q], w |-> q, r |-> r[q], res |-> res])]
              /\ ret' = [ret EXCEPT ![q] = res]
       ELSE /\ ret' = [ret EXCEPT ![q] = NoNextPlugin]
            /\ UNCHANGED nextCalls
    /\ pc' = [pc EXCEPT ![q] = "done"]
    /\ UNCHANGED <<Next, dnsjson, fileVer, tableHist, requestCount, ctx, r, startVer, file, readVer,
                   data, answers, written, werr>>

\* a bug: the records are cached, a call reuses what an earlier call read
LoadCached(q) ==
    /\ pc[q] = "classify"
    /\ IsAddressQuery(r[q])
    /\ IF \E p \in Queries : file[p] # NotRead
       THEN \E p \in Queries :
              /\ file[p] # NotRead
              /\ file' = [file EXCEPT ![q] = file[p]]
              /\ readVer' = [readVer EXCEPT ![q] = readVer[p]]
              /\ data' = [data EXCEPT ![q] = data[p]]
       ELSE /\ file' = [file EXCEPT ![q] = ReadFile(dnsjson).bytes]
            /\ readVer' = [readVer EXCEPT ![q] = fileVer]
            /\ data' = [data EXCEPT ![q] = Unmarshal(ReadFile(dnsjson).bytes).Records]
    /\ answers' = [answers EXCEPT
           ![q] = Append(@, BuildAnswer(Name(r[q]), MatchRecords(Name(r[q]), data'[q])))]
    /\ pc' = [pc EXCEPT ![q] = PcAfter("classify")]
    /\ UNCHANGED <<Next, dnsjson, fileVer, tableHist, requestCount, ctx, r, startVer,
                   written, werr, nextCalls, ret>>

\* lines 59, 67-71: an A or AAAA query reads dns.json and decodes it, both
\* errors discarded; lines 73-91: the scan of the records and the answer
\* record, computed from the locals alone
Load(q) ==
    /\ pc[q] = "classify"
    /\ IsAddressQuery(r[q])
    /\ file' = [file EXCEPT ![q] = ReadFile(dnsjson).bytes]
    /\ readVer' = [readVer EXCEPT ![q] = fileVer]
    /\ data' = [data EXCEPT ![q] = Unmarshal(ReadFile(dnsjson).bytes).Records]
    /\ answers' = [answers EXCEPT
           ![q] = Append(@, BuildAnswer(Name(r[q]), MatchRecords(Name(r[q]), data'[q])))]
    /\ pc' = [pc EXCEPT ![q] = PcAfter("classify")]
    /\ UNCHANGED <<Next, dnsjson, fileVer, tableHist, requestCount, ctx, r, startVer,
                   written, werr, nextCalls, ret>>

\* line 95: requestCount.WithLabelValues(metrics.WithServer(ctx)).Inc(), an
\* atomic increment
Count(q) ==
    /\ pc[q] = "count"
    /\ requestCount' = [requestCount EXCEPT ![WithServer(ctx[q])] = @ + 1]
    /\ pc' = [pc EXCEPT ![q] = PcAfter("count")]
    /\ UNCHANGED <<Next, dnsjson, fileVer, tableHist, ctx, r, startVer, file, readVer, data, answers,
                   written, werr, nextCalls, ret>>

\* a bug: a query that resolved to no address gets a SERVFAIL reply and a
\* SERVFAIL result
WriteFailOnMiss(q) ==
    /\ pc[q] = "write"
    /\ LET miss == answers[q][1].A = NilIP IN
         /\ written' = [written EXCEPT ![q] = Append(@,
                IF miss THEN ErrorReply(r[q], RcodeServerFailure)
                ELSE BuildReply(r[q], answers[q]))]
         /\ ret' = [ret EXCEPT ![q] = IF miss THEN <<RcodeServerFailure, "nil">>
                                       ELSE <<RcodeSuccess, "nil">>]
    /\ \E e \in {"nil", "write failed"} : werr' = [werr EXCEPT ![q] = e]
    /\ pc' = [pc EXCEPT ![q] = PcAfter("write")]
    /\ UNCHANGED <<Next, dnsjson, fileVer, tableHist, requestCount, ctx, r, startVer, file,
                   readVer, data, answers, nextCalls>>

\* a bug: nothing is written for a query that resolved to no address, and
\* success is returned all the same
WriteOnlyResolved(q) ==
    /\ pc[q] = "write"
    /\ IF answers[q][1].A = NilIP
       THEN UNCHANGED <<written, werr>>
       ELSE /\ written' = [written EXCEPT ![q] = Append(@, BuildReply(r[q], answers[q]))]
            /\ \E e \in {"nil", "write failed"} : werr' = [werr EXCEPT ![q] = e]
    /\ ret' = [ret EXCEPT ![q] = <<RcodeSuccess, "nil">>]
    /\ pc' = [pc EXCEPT ![q] = PcAfter("write")]
    /\ UNCHANGED <<Next, dnsjson, fileVer, tableHist, requestCount, ctx, r, startVer, file,
                   readVer, data, answers, nextCalls>>

\* lines 98-107: the reply is built and passed to w.WriteMsg, whose error is
\* discarded; ServeDNS returns (RcodeSuccess, nil)
Write(q) ==
    /\ pc[q] = "write"
    /\ written' = [written EXCEPT ![q] = Append(@, BuildReply(r[q], answers[q]))]
    /\ \E e \in {"nil", "write failed"} : werr' = [werr EXCEPT ![q] = e]
    /\ ret' = [ret EXCEPT ![q] = <<RcodeSuccess, "nil">>]
    /\ pc' = [pc EXCEPT ![q] = PcAfter("write")]
    /\ UNCHANGED <<Next, dnsjson, fileVer, tableHist, requestCount, ctx, r, startVer, file, readVer,
                   data, answers, nextCalls>>

\* somebody rewrites dns.json
UpdateTable ==
    /\ fileVer < MaxUpdates
    /\ \E t \in SampleTables \ {dnsjson} : dnsjson' = t
    /\ fileVer' = fileVer + 1
    /\ tableHist' = Append(tableHist, dnsjson')
    /\ UNCHANGED <<Next, requestCount, pc, ctx, r, startVer, file, readVer, data, answers,
                   written, werr, nextCalls, ret>>

ServeDNS(q) == Delegate(q) \/ Load(q) \/ Count(q) \/ Write(q)

Step == \/ \E q \in Queries : Receive(q) \/ ServeDNS(q)
        \/ UpdateTable

\* queries arriving and handled concurrently while dns.json changes
Spec == Init /\ [][Step]_vars

\* one call of ServeDNS (query 1, on the first server) on any request, any
\* content of dns.json and either chain
InitCall ==
    /\ Fresh
    /\ Next \in {"handler", "nil"}
    /\ dnsjson \in Tables
    /\ tableHist = <<dnsjson>>
    /\ pc = [q \in Queries |-> IF q = 1 THEN "classify" ELSE "idle"]
    /\ \E s \in {"dns://.:53"}, m \in Requests :
         /\ ctx = [q \in Queries |-> IF q = 1 THEN [server |-> s] ELSE NoCtx]
         /\ r = [q \in Queries |-> IF q = 1 THEN m ELSE NoMsg]

CallStep == \E q \in Queries : ServeDNS(q)

SpecCall == InitCall /\ [][CallStep]_vars

\* ------------------------------------------------------------------ claims
Success == <<RcodeSuccess, "nil">>
Done(q) == pc[q] = "done"
AddressCall(q) == pc[q] # "idle" /\ IsAddressQuery(r[q])
OtherCall(q) == pc[q] # "idle" /\ ~IsAddressQuery(r[q])
\* the name of the question as the client sent it
AskedName(q) == r[q].Question[1].Name
\* the records of call q named key, by position
Named(q, key) == {i \in 1..Len(data[q]) : data[q][i].Name = key}
FirstLabel(n) == Split(n, ".")[1]
RepliesOn(s) == {q \in Queries : WithServer(ctx[q]) = s /\ written[q] # <<>>}

\* C1: a call of ServeDNS passes at most one message to WriteMsg, and never
\* both writes a reply and calls the next plugin.
C1_OneOutcome ==
    \A q \in Queries :
        /\ Len(written[q]) <= 1
        /\ Len(nextCalls[q]) <= 1
        /\ ~(written[q] # <<>> /\ nextCalls[q] # <<>>)

C1_Witness ==
    \E p, q \in Queries :
        /\ Done(p) /\ Len(written[p]) = 1 /\ nextCalls[p] = <<>>
        /\ Done(q) /\ Len(nextCalls[q]) = 1 /\ written[q] = <<>>

\* C2 as stated: every query of another type than A and AAAA is passed to the
\* next plugin with the context, writer and message of the call, ServeDNS
\* returns what the next plugin returned, and the step writes nothing, reads
\* no table and counts nothing.
C2_AlwaysDelegated ==
    [][\A q \in Queries :
          (pc[q] = "classify" /\ ~IsAddressQuery(r[q]) /\ pc'[q] = "done") =>
              /\ written'[q] = <<>>
              /\ file'[q] = NotRead /\ data'[q] = <<>>
              /\ requestCount' = requestCount
              /\ Len(nextCalls'[q]) = 1
              /\ nextCalls'[q][1].ctx = ctx[q]
              /\ nextCalls'[q][1].w = q
              /\ nextCalls'[q][1].r = r[q]
              /\ ret'[q] = nextCalls'[q][1].res]_vars

\* C2 amended: the same when a next plugin is configured; when ServeDNS is
\* the last plugin of the chain (Next is nil) no plugin is called, and the
\* call returns SERVFAIL with the error "no next plugin found", still
\* writing nothing, reading no table and counting nothing.
C2_DelegatedOrFailure ==
    [][\A q \in Queries :
          (pc[q] = "classify" /\ ~IsAddressQuery(r[q]) /\ pc'[q] = "done") =>
              /\ written'[q] = <<>>
              /\ file'[q] = NotRead /\ data'[q] = <<>>
              /\ requestCount' = requestCount
              /\ IF Next # "nil"
                 THEN /\ Len(nextCalls'[q]) = 1
                      /\ nextCalls'[q][1].ctx = ctx[q]
                      /\ nextCalls'[q][1].w = q
                      /\ nextCalls'[q][1].r = r[q]
                      /\ ret'[q] = nextCalls'[q][1].res
                 ELSE /\ nextCalls'[q] = <<>>
                      /\ ret'[q] = NoNextPlugin]_vars

C2_Witness ==
    \E q \in Queries :
        /\ Done(q) /\ OtherCall(q) /\ Len(r[q].Question) = 1
        /\ Len(nextCalls[q]) = 1 /\ ret[q] = <<RcodeServerFailure, "next failed">>

\* C3 as stated: the address of the answer is the address of the last record
\* whose name equals the first label of the name asked for, and no other
\* record counts, so that it is unset when no record has that name.
C3_LastNamedLikeAsked ==
    \A q \in Queries :
        (AddressCall(q) /\ answers[q] # <<>>) =>
            LET M == Named(q, FirstLabel(AskedName(q)))
            IN answers[q][1].A = IF M = {} THEN NilIP
                                 ELSE ParseIP(data[q][Max(M)].Ipaddress)

\* C3 amended: the address of the answer is the address of the last record
\* whose name equals the first label of the LOWER-CASED name asked for, and
\* no other record counts.
C3_LastNamedLikeLowered ==
    \A q \in Queries :
        (AddressCall(q) /\ answers[q] # <<>>) =>
            LET M == Named(q, FirstLabel(ToLower(AskedName(q))))
            IN answers[q][1].A = IF M = {} THEN NilIP
                                 ELSE ParseIP(data[q][Max(M)].Ipaddress)

C3_Witness ==
    \E q \in Queries :
        /\ AddressCall(q) /\ answers[q] # <<>>
        /\ Len(Split(AskedName(q), ".")) > 2
        /\ Named(q, FirstLabel(ToLower(AskedName(q)))) = {1, 2}
        /\ ParseIP(data[q][1].Ipaddress) # NilIP
        /\ ParseIP(data[q][2].Ipaddress) # NilIP
        /\ ParseIP(data[q][1].Ipaddress) # ParseIP(data[q][2].Ipaddress)

\* what C4 says of the reply of a finished A or AAAA call, but for the name
\* of the answer
ReplyShape(q) ==
    /\ Len(written[q]) = 1
    /\ Len(written[q][1].Answer) = 1
    /\ written[q][1].Answer[1].Rrtype = TypeA
    /\ written[q][1].Answer[1].Class = ClassINET
    /\ written[q][1].Answer[1].Ttl = 30
    /\ written[q][1].Authoritative
    /\ written[q][1].Response
    /\ written[q][1].Id = r[q].Id
    /\ written[q][1].Question = r[q].Question
    /\ ret[q] = Success

\* C4 as stated: the reply of an A or AAAA query has one answer, of type A,
\* class INET and TTL 30, named as the query was; it is authoritative and a
\* reply to the query, and ServeDNS returns (SUCCESS, nil).
C4_AnswerNamedAsAsked ==
    \A q \in Queries :
        (AddressCall(q) /\ Done(q)) =>
            ReplyShape(q) /\ written[q][1].Answer[1].Name = AskedName(q)

\* C4 amended: the same, the answer being named by the lower-cased name of
\* the query.
C4_AnswerNamedLowered ==
    \A q \in Queries :
        (AddressCall(q) /\ Done(q)) =>
            ReplyShape(q) /\ written[q][1].Answer[1].Name = ToLower(AskedName(q))

C4_Witness ==
    \E q \in Queries :
        /\ AddressCall(q) /\ Done(q)
        /\ QType(r[q]) = TypeAAAA
        /\ r[q].Id = 2
        /\ AskedName(q) # ToLower(AskedName(q))
        /\ written[q][1].Answer[1].A # NilIP

C6_FaultMeansNoRecords ==
    \A q \in Queries :
        (file[q] # NotRead /\ (file[q].kind = "empty" \/ Unmarshal(file[q]).err # "nil")) =>
            /\ data[q] = <<>>
            /\ answers[q] # <<>> => answers[q][1].A = NilIP
            /\ Done(q) => (Len(written[q]) = 1 /\ ret[q] = Success)

Settled == \A q \in Queries : pc[q] \in {"idle", "done"}
AnsweredOn(s) == {q \in Queries : Done(q) /\ IsAddressQuery(r[q]) /\ ctx[q].server = s}
C8_CounterIsAnswered ==
    /\ [](Settled => \A s \in Servers : requestCount[s] = Cardinality(AnsweredOn(s)))
    /\ [][\A s \in Servers : requestCount'[s] >= requestCount[s]]_vars

C8_Witness ==
    /\ \A q \in Queries : Done(q)
    /\ \E s \in Servers : requestCount[s] = 0
    /\ \E s \in Servers : requestCount[s] >= 1
    /\ \A q \in Queries : IsAddressQuery(r[q])

\* C9 as stated: the counter is incremented after the reply is written: a
\* server's counter never exceeds the number of replies written for it.
C9_CountAfterWrite ==
    \A s \in Servers : requestCount[s] <= Cardinality(RepliesOn(s))

\* C9 amended: the counter is incremented BEFORE the reply is written: the
\* number of replies written for a server never exceeds its counter (the
\* order is load, match, build, count, write).
C9_WriteAfterCount ==
    \A s \in Servers : Cardinality(RepliesOn(s)) <= requestCount[s]

C9_Witness ==
    \E q \in Queries :
        /\ pc[q] = "write" /\ written[q] = <<>>
        /\ requestCount[WithServer(ctx[q])] = 1

\* C10: the records a call uses are those of the content dns.json had when
\* the call read it, a content no older than the start of the call, and the
\* address of its answer is computed from that content alone.
C10_FreshRead ==
    \A q \in Queries :
        file[q] # NotRead =>
            /\ readVer[q] >= startVer[q]
            /\ file[q] = ReadFile(tableHist[readVer[q] + 1]).bytes
            /\ data[q] = Unmarshal(file[q]).Records
            /\ answers[q] # <<>> =>
                 answers[q][1].A = ParseIP(MatchRecords(Name(r[q]), data[q]))

C10_Witness ==
    \E p, q \in Queries :
        /\ AddressCall(p) /\ Done(p)
        /\ AddressCall(q) /\ Done(q)
        /\ readVer[p] = 0 /\ readVer[q] = 1 /\ startVer[q] = 1
        /\ Name(r[p]) = Name(r[q])
        /\ written[p][1].Answer[1].A # written[q][1].Answer[1].A

====
